---- MODULE Spec2Model ----
(***************************************************************************)
(* A model of curator.py: the argument resolver (Parser) and the curation  *)
(* pipeline (count, destination selection, directory creation, gather,     *)
(* copy).  The filesystem is part of the state; a run is a sequence of     *)
(* steps over it.                                                          *)
(***************************************************************************)
EXTENDS Integers, Sequences, FiniteSets, TLC

VARIABLES
    fs,                   \* the filesystem: [dirs, files]
    argv,                 \* command line: [destination, sources]
    pc,                   \* position of the script
    arguments,            \* parser.arguments after parse_arguments
    image_count, video_count,
    image_index_places, video_index_places,
    destination, video_destination,
    items,                \* global item list of <<path, timestamp>> pairs
    pos,                  \* position of the copy loop in items
    image_index, video_index,
    fs0,                  \* history: the filesystem when the run started
    created,              \* history: directories created by the run
    copied,               \* history: the copies performed by the run
    fault,                \* history: position in items where a copy failed
    run,                  \* history: number of the run (1 or 2)
    first                 \* history: outcome of the first run

vars == <<fs, argv, pc, arguments, image_count, video_count,
          image_index_places, video_index_places, destination,
          video_destination, items, pos, image_index, video_index,
          fs0, created, copied, fault, run, first>>

----------------------------------------------------------------------------
(* Bounds of the model. *)

MaxFiles == 3      \* files present in the tree besides the bulk directory
MaxSources == 2    \* source arguments on the command line
MaxBulk == 10      \* images in the bulk scenario

----------------------------------------------------------------------------
(* Constants of the script. *)

KNOWN_IMAGE_TYPES == {".gif", ".bmp", ".png", ".jpg", ".jpeg", ".tiff"}
KNOWN_VIDEO_TYPES == {".m4v", ".mp4", ".avi", ".mov", ".wmv"}
DEFAULT_TITLE == <<"A", "l", "b", "u", "m">>
DEFAULT_VIDEO_DIRECTORY == "Clips"
Year == 2026
Month == 3

----------------------------------------------------------------------------
(* Strings.  A file name is a record of its stem and its suffix (the last  *)
(* dot-separated part, as pathlib's .suffix gives it).                     *)

Name(stem, ext) == [stem |-> stem, ext |-> ext]

Digit == <<"1", "2", "3", "4", "5", "6", "7", "8", "9">>

\* str(n) for a natural number
RECURSIVE Str(_)
Str(n) == IF n < 10
          THEN (IF n = 0 THEN "0" ELSE Digit[n])
          ELSE Str(n \div 10) \o (IF n % 10 = 0 THEN "0" ELSE Digit[n % 10])

\* s.rjust(width, "0")
RECURSIVE rjust(_, _)
rjust(s, width) == IF Len(s) >= width THEN s ELSE rjust("0" \o s, width)

\* str.lower on the suffixes of the model
lower(ext) == CASE ext = ".JPG" -> ".jpg"
                [] ext = ".PNG" -> ".png"
                [] ext = ".MOV" -> ".mov"
                [] OTHER -> ext

\* character.isupper
isupper(c) == c \in {"A", "B", "C"}

\* "".join(sequence of characters)
RECURSIVE join(_)
join(cs) == IF cs = <<>> THEN "" ELSE Head(cs) \o join(Tail(cs))

\* TITLE_FORMAT.format(year, month, title), as a directory name
TITLE_FORMAT(year, month, title) ==
    Name(year \o "-" \o month \o " " \o title, "")

ItemFormatNoIndex(initials, index, extension) == Name(initials, extension)

\* ITEM_FORMAT.format(initials, index, extension), as a file name
ITEM_FORMAT(initials, index, extension) ==
    Name(initials \o "_" \o index, extension)

----------------------------------------------------------------------------
(* Paths.  A path is a sequence of names; "." and ".." are names too.      *)

Dot == Name(".", "")
DotDot == Name("..", "")

Parent(p) == SubSeq(p, 1, Len(p) - 1)
Last(p) == p[Len(p)]

\* pathlib.Path(string): "." components are dropped, ".." ones are kept
Path(s) == SelectSeq(s, LAMBDA c : c # Dot)

\* the directory entry a path names (the operating system's lookup)
RECURSIVE Resolve(_)
Resolve(p) ==
    IF p = <<>> THEN <<>>
    ELSE LET r == Resolve(Parent(p))
         IN  IF Last(p) = DotDot
             THEN (IF r = <<>> THEN <<>> ELSE Parent(r))
             ELSE Append(r, Last(p))

\* the order of the directory names of the model as Python compares strings
NameOrder == << DotDot,
                TITLE_FORMAT(rjust(Str(Year), 4), rjust(Str(Month), 2),
                             join(DEFAULT_TITLE)),
                Name(DEFAULT_VIDEO_DIRECTORY, ""),
                Name("a", ""), Name("b", ""), Name("d", ""),
                Name("pics", ".jpg") >>

NameRank(n) == CHOOSE i \in 1..Len(NameOrder) : NameOrder[i] = n

\* p < q for pathlib paths: the parts compared as lists of strings
RECURSIVE PathLess(_, _)
PathLess(p, q) ==
    IF q = <<>> THEN FALSE
    ELSE IF p = <<>> THEN TRUE
    ELSE IF Head(p) = Head(q) THEN PathLess(Tail(p), Tail(q))
    ELSE NameRank(Head(p)) < NameRank(Head(q))

\* sorted(set of paths, key=lambda source_path: source_path)
RECURSIVE SortedPaths(_)
SortedPaths(S) ==
    IF S = {} THEN <<>>
    ELSE LET m == CHOOSE x \in S : \A y \in S \ {x} : PathLess(x, y)
         IN  <<m>> \o SortedPaths(S \ {m})

----------------------------------------------------------------------------
(* The filesystem: a set of directories (resolved paths) and a set of      *)
(* files [dir, name, mtime, data].                                         *)

\* Path.iterdir(): the paths of the direct children
iterdir(f, p) ==
    LET d == Resolve(p)
    IN  {Append(p, Last(c)) : c \in {c \in f.dirs : c # <<>> /\ Parent(c) = d}}
        \cup {Append(p, x.name) : x \in {x \in f.files : x.dir = d}}

is_dir(f, p) == Resolve(p) \in f.dirs

exists(f, p) ==
    \/ Resolve(p) \in f.dirs
    \/ \E x \in f.files : x.dir = Resolve(Parent(p)) /\ x.name = Last(p)

FileAt(f, p) ==
    CHOOSE x \in f.files : x.dir = Resolve(Parent(p)) /\ x.name = Last(p)

\* os.path.getmtime
getmtime(f, p) == FileAt(f, p).mtime

\* Path.suffix
suffix(p) == Last(p).ext

\* Path.mkdir(parents=True): the directory and its missing ancestors
mkdir(f, p) ==
    [f EXCEPT !.dirs = @ \cup {SubSeq(Resolve(p), 1, k) : k \in 1..Len(Resolve(p))}]

\* shutil.copy2(src, dst): content and modification time, replacing dst
copy2(f, src, dst) ==
    LET s == FileAt(f, src)
        d == Resolve(Parent(dst))
    IN  [f EXCEPT !.files =
            {x \in @ : ~(x.dir = d /\ x.name = Last(dst))}
            \cup {[dir |-> d, name |-> Last(dst), mtime |-> s.mtime,
                   data |-> s.data]}]

----------------------------------------------------------------------------
(* The argument resolver. *)

CollectDirectChildren(f, source) ==
    {item \in iterdir(f, source) : is_dir(f, item)}

\* collect_subsources: every directory below source, at any depth
RECURSIVE collect_subsources(_, _)
collect_subsources(f, source) ==
    LET subdirs == {item \in iterdir(f, source) : is_dir(f, item)}
    IN  subdirs \cup UNION {collect_subsources(f, item) : item \in subdirs}

Range(s) == {s[i] : i \in 1..Len(s)}

\* Parser.__sanitize_arguments: the sources as a sorted list of distinct paths
sanitize_sources(f, supplied) ==
    LET sources == {Path(s) : s \in Range(supplied)}
        subsources == UNION {collect_subsources(f, source) : source \in sources}
    IN  SortedPaths(sources \cup subsources)

\* Parser.__determine_initials: the uppercase characters of the title
determine_initials(title) == join(SelectSeq(title, isupper))

----------------------------------------------------------------------------
(* The curation pipeline. *)

RECURSIVE CountFilesCaseSensitive(_, _, _)
CountFilesCaseSensitive(f, sources, desired_filetypes) ==
    IF sources = <<>> THEN 0
    ELSE Cardinality({item \in iterdir(f, Head(sources)) :
                         suffix(item) \in desired_filetypes})
         + CountFilesCaseSensitive(f, Tail(sources), desired_filetypes)

\* count_files: the direct children of the sources whose suffix is desired
RECURSIVE count_files(_, _, _)
count_files(f, sources, desired_filetypes) ==
    IF sources = <<>> THEN 0
    ELSE Cardinality({item \in iterdir(f, Head(sources)) :
                         lower(suffix(item)) \in desired_filetypes})
         + count_files(f, Tail(sources), desired_filetypes)

\* sorted(subsource_items, key=lambda pair: pair[1]): the sort is stable and
\* iterdir yields the entries in an arbitrary order, so pairs with equal
\* timestamps may come out in any order
RECURSIVE SortedByMtime(_)
SortedByMtime(S) ==
    IF S = {} THEN {<<>>}
    ELSE LET least == {m \in S : \A x \in S : m[2] <= x[2]}
         IN  UNION {{<<m>> \o rest : rest \in SortedByMtime(S \ {m})} :
                    m \in least}

\* the non-directories of one source, paired with their timestamps
subsource_items(f, source) ==
    {<<item, getmtime(f, item)>> :
        item \in {i \in iterdir(f, source) : ~is_dir(f, i)}}

gather_global(f, sources) ==
    SortedByMtime(UNION {subsource_items(f, sources[k]) :
                         k \in 1..Len(sources)})

\* the global item lists the gather loop can build
RECURSIVE gather(_, _)
gather(f, sources) ==
    IF sources = <<>> THEN {<<>>}
    ELSE {x \o y : x \in SortedByMtime(subsource_items(f, Head(sources))),
                   y \in gather(f, Tail(sources))}

IsImage(item) == lower(suffix(item[1])) \in KNOWN_IMAGE_TYPES
IsVideo(item) == lower(suffix(item[1])) \in KNOWN_VIDEO_TYPES

\* the path an image (a video) is copied to
ImageTarget(item) ==
    Append(destination,
           ITEM_FORMAT(arguments.initials,
                       rjust(Str(image_index), image_index_places),
                       lower(suffix(item[1]))))
VideoTarget(item) ==
    Append(video_destination,
           ITEM_FORMAT(arguments.initials,
                       rjust(Str(video_index), video_index_places),
                       lower(suffix(item[1]))))

----------------------------------------------------------------------------
(* The initial states: a directory tree, the files in it and a command     *)
(* line.  The working directory is the empty path.                         *)

AlbumName == TITLE_FORMAT(rjust(Str(Year), 4), rjust(Str(Month), 2),
                          join(DEFAULT_TITLE))
DirA == <<Name("a", "")>>
DirB == <<Name("a", ""), Name("b", "")>>
DirPics == <<Name("a", ""), Name("b", ""), Name("pics", ".jpg")>>
DirAlbum == <<Name("a", ""), AlbumName>>
DirD == <<Name("d", "")>>

DirSets ==
    {{<<>>, DirA} \cup X : X \in {X \in SUBSET {DirB, DirPics, DirAlbum} :
                                      DirPics \in X => DirB \in X}}

File(dir, stem, ext, mtime, data) ==
    [dir |-> dir, name |-> Name(stem, ext), mtime |-> mtime, data |-> data]

FileUniverse ==
    { File(DirA, "photo", ".jpg", 3, 1),
      File(DirA, "movie", ".mp4", 2, 2),
      File(DirA, "notes", ".txt", 2, 3),
      File(DirB, "pic", ".png", 1, 4),
      File(DirB, "shot", ".PNG", 1, 5),
      File(DirB, "clip", ".MOV", 2, 6),
      File(DirAlbum, "A_1", ".jpg", 2, 7),
      File(DirAlbum, "A_2", ".jpg", 1, 8) }

\* n images with increasing timestamps in directory a
Bulk(n) == {File(DirA, "img" \o Str(k), ".jpg", 3 + k, 10 + k) : k \in 1..n}

FileSystems ==
    {[dirs |-> D, files |-> F \cup Bulk(n)] :
        <<D, F, n>> \in
            {t \in DirSets \X (SUBSET FileUniverse) \X (0..MaxBulk) :
                /\ \A x \in t[2] : x.dir \in t[1]
                /\ Cardinality(t[2]) <= (IF t[3] = 0 THEN MaxFiles ELSE 1)}}

\* the spellings of source directories on the command line
SourceStrings ==
    {DirA, DirB, <<Name("a", ""), Dot, Name("b", "")>>,
     <<Name("a", ""), Name("b", ""), DotDot>>}

SourceArgs(f) ==
    UNION {[1..n -> {s \in SourceStrings :
                        \A k \in 1..Len(s) : is_dir(f, SubSeq(s, 1, k))}] :
           n \in 1..MaxSources}

DestinationArgs == {DirD, DirA}

NoArguments == [destination |-> <<>>, sources |-> <<>>, initials |-> "",
                title |-> "", year |-> "", month |-> ""]
NoOutcome == [files |-> {}, items |-> <<>>]

Init ==
    /\ fs \in FileSystems
    /\ argv \in {a \in [destination : DestinationArgs,
                        sources : SourceArgs(fs)] :
                    \* several source arguments come with at most one file,
                    \* the bulk directory with the one source a
                    /\ Len(a.sources) > 1 => Cardinality(fs.files) <= 1
                    /\ (\E x \in fs.files : x \notin FileUniverse)
                          => a.sources = <<DirA>>}
    /\ pc = "parse"
    /\ arguments = NoArguments
    /\ image_count = 0 /\ video_count = 0
    /\ image_index_places = 0 /\ video_index_places = 0
    /\ destination = <<>> /\ video_destination = <<>>
    /\ items = <<>> /\ pos = 0
    /\ image_index = 0 /\ video_index = 0
    /\ fs0 = fs /\ created = {} /\ copied = <<>> /\ fault = 0
    /\ run = 1 /\ first = NoOutcome

----------------------------------------------------------------------------
(* The steps of a run. *)

\* parser.parse_arguments()
ParseArguments ==
    /\ pc = "parse"
    /\ arguments' =
         [destination |-> Path(argv.destination),
          sources |-> sanitize_sources(fs, argv.sources),
          initials |-> determine_initials(DEFAULT_TITLE),
          title |-> join(DEFAULT_TITLE),
          year |-> rjust(Str(Year), 4),
          month |-> rjust(Str(Month), 2)]
    /\ pc' = "count"
    /\ UNCHANGED <<fs, argv, image_count, video_count, image_index_places,
                   video_index_places, destination, video_destination, items,
                   pos, image_index, video_index, fs0, created, copied, fault,
                   run, first>>

\* the counts and the number of places of the indexes
CountFiles ==
    /\ pc = "count"
    /\ image_count' = count_files(fs, arguments.sources, KNOWN_IMAGE_TYPES)
    /\ video_count' = count_files(fs, arguments.sources, KNOWN_VIDEO_TYPES)
    /\ image_index_places' = Len(Str(image_count'))
    /\ video_index_places' = Len(Str(video_count'))
    /\ pc' = "destination"
    /\ UNCHANGED <<fs, argv, arguments, destination, video_destination, items,
                   pos, image_index, video_index, fs0, created, copied, fault,
                   run, first>>

\* the main destination and the video destination
SelectDestinations ==
    /\ pc = "destination"
    /\ destination' =
         Append(arguments.destination,
                TITLE_FORMAT(arguments.year, arguments.month, arguments.title))
    /\ video_destination' =
         IF video_count > 0 /\ image_count = 0
         THEN destination'
         ELSE Append(destination', Name(DEFAULT_VIDEO_DIRECTORY, ""))
    /\ pc' = "mkdir"
    /\ UNCHANGED <<fs, argv, arguments, image_count, video_count,
                   image_index_places, video_index_places, items, pos,
                   image_index, video_index, fs0, created, copied, fault, run,
                   first>>

\* create either destination if it does not exist
MakeDirectories ==
    /\ pc = "mkdir"
    /\ LET f1 == IF image_count > 0 /\ ~exists(fs, destination)
                 THEN mkdir(fs, destination) ELSE fs
           f2 == IF video_count > 0 /\ ~exists(f1, video_destination)
                 THEN mkdir(f1, video_destination) ELSE f1
       IN  /\ fs' = f2
           /\ created' = f2.dirs \ fs.dirs
    /\ pc' = "gather"
    /\ UNCHANGED <<argv, arguments, image_count, video_count,
                   image_index_places, video_index_places, destination,
                   video_destination, items, pos, image_index, video_index,
                   fs0, copied, fault, run, first>>

InitialIndexZero == 1 - 1

\* the value both indexes start from
InitialIndex == 1

\* collect the items of every source and start the copy loop
GatherItems ==
    /\ pc = "gather"
    /\ items' \in gather(fs, arguments.sources)
    /\ image_index' = InitialIndex
    /\ video_index' = InitialIndex
    /\ pos' = 1
    /\ pc' = "copy"
    /\ UNCHANGED <<fs, argv, arguments, image_count, video_count,
                   image_index_places, video_index_places, destination,
                   video_destination, fs0, created, copied, fault, run, first>>

\* shutil.copy2 can write dst: it is not src itself and its directory exists
CanCopy(src, dst) ==
    /\ is_dir(fs, Parent(dst))
    /\ ~(Resolve(Parent(src)) = Resolve(Parent(dst)) /\ Last(src) = Last(dst))

Copy(kind, item, target, index) ==
    [pos |-> pos, kind |-> kind, item |-> item[1], target |-> target,
     index |-> index, data |-> FileAt(fs, item[1]).data]

\* one iteration of the copy loop on an image
CopyImage ==
    /\ pc = "copy" /\ pos <= Len(items)
    /\ IsImage(items[pos])
    /\ CanCopy(items[pos][1], ImageTarget(items[pos]))
    /\ fs' = copy2(fs, items[pos][1], ImageTarget(items[pos]))
    /\ copied' = Append(copied, Copy("image", items[pos],
                                     ImageTarget(items[pos]), image_index))
    /\ image_index' = image_index + 1
    /\ pos' = pos + 1
    /\ UNCHANGED <<argv, pc, arguments, image_count, video_count,
                   image_index_places, video_index_places, destination,
                   video_destination, items, video_index, fs0, created, fault,
                   run, first>>

\* one iteration of the copy loop on a video
CopyVideo ==
    /\ pc = "copy" /\ pos <= Len(items)
    /\ ~IsImage(items[pos]) /\ IsVideo(items[pos])
    /\ CanCopy(items[pos][1], VideoTarget(items[pos]))
    /\ fs' = copy2(fs, items[pos][1], VideoTarget(items[pos]))
    /\ copied' = Append(copied, Copy("video", items[pos],
                                     VideoTarget(items[pos]), video_index))
    /\ video_index' = video_index + 1
    /\ pos' = pos + 1
    /\ UNCHANGED <<argv, pc, arguments, image_count, video_count,
                   image_index_places, video_index_places, destination,
                   video_destination, items, image_index, fs0, created, fault,
                   run, first>>

IgnoreItemCounted ==
    /\ pc = "copy" /\ pos <= Len(items)
    /\ ~IsImage(items[pos]) /\ ~IsVideo(items[pos])
    /\ image_index' = image_index + 1
    /\ pos' = pos + 1
    /\ UNCHANGED <<fs, argv, pc, arguments, image_count, video_count,
                   image_index_places, video_index_places, destination,
                   video_destination, items, video_index, fs0, created,
                   copied, fault, run, first>>

\* one iteration of the copy loop on an item of unknown type: a notice only
IgnoreItem ==
    /\ pc = "copy" /\ pos <= Len(items)
    /\ ~IsImage(items[pos]) /\ ~IsVideo(items[pos])
    /\ pos' = pos + 1
    /\ UNCHANGED <<fs, argv, pc, arguments, image_count, video_count,
                   image_index_places, video_index_places, destination,
                   video_destination, items, image_index, video_index, fs0,
                   created, copied, fault, run, first>>

\* what a failed copy leaves: nothing, or a truncated target when the copy
\* had started to write
AfterFailedCopy(src, dst) ==
    {fs} \cup
    IF CanCopy(src, dst)
    THEN {[fs EXCEPT !.files =
              {x \in @ : ~(x.dir = Resolve(Parent(dst)) /\ x.name = Last(dst))}
              \cup {[dir |-> Resolve(Parent(dst)), name |-> Last(dst),
                     mtime |-> 0, data |-> 0]}]}
    ELSE {}

CopyFailsSwallowed ==
    /\ pc = "copy" /\ pos <= Len(items)
    /\ IsImage(items[pos]) \/ IsVideo(items[pos])
    /\ fault' = pos
    /\ pos' = pos + 1
    /\ UNCHANGED <<fs, argv, pc, arguments, image_count, video_count,
                   image_index_places, video_index_places, destination,
                   video_destination, items, image_index, video_index, fs0,
                   created, copied, run, first>>

\* shutil.copy2 raises: nothing catches it and the script ends
CopyFails ==
    /\ pc = "copy" /\ pos <= Len(items)
    /\ IsImage(items[pos]) \/ IsVideo(items[pos])
    /\ LET dst == IF IsImage(items[pos]) THEN ImageTarget(items[pos])
                  ELSE VideoTarget(items[pos])
       IN  fs' \in AfterFailedCopy(items[pos][1], dst)
    /\ fault' = pos
    /\ pc' = "aborted"
    /\ UNCHANGED <<argv, arguments, image_count, video_count,
                   image_index_places, video_index_places, destination,
                   video_destination, items, pos, image_index, video_index,
                   fs0, created, copied, run, first>>

\* the copy loop is through the item list
Finish ==
    /\ pc = "copy" /\ pos > Len(items)
    /\ pc' = "done"
    /\ UNCHANGED <<fs, argv, arguments, image_count, video_count,
                   image_index_places, video_index_places, destination,
                   video_destination, items, pos, image_index, video_index,
                   fs0, created, copied, fault, run, first>>

\* the script is started again with the same command line
RunAgain ==
    /\ pc = "done" /\ run = 1
    /\ run' = 2
    /\ first' = [files |-> fs.files, items |-> items]
    /\ pc' = "parse"
    /\ arguments' = NoArguments
    /\ image_count' = 0 /\ video_count' = 0
    /\ image_index_places' = 0 /\ video_index_places' = 0
    /\ destination' = <<>> /\ video_destination' = <<>>
    /\ items' = <<>> /\ pos' = 0
    /\ image_index' = 0 /\ video_index' = 0
    /\ fs0' = fs /\ created' = {} /\ copied' = <<>> /\ fault' = 0
    /\ UNCHANGED <<fs, argv>>

Next ==
    \/ ParseArguments
    \/ CountFiles
    \/ SelectDestinations
    \/ MakeDirectories
    \/ GatherItems
    \/ CopyImage
    \/ CopyVideo
    \/ IgnoreItem
    \/ CopyFails
    \/ Finish

Spec == Init /\ [][Next]_vars

NextTwice == Next \/ RunAgain


\* two runs in a row, from a command line with one source argument
InitTwice == Init /\ Len(argv.sources) = 1

SpecTwice == InitTwice /\ [][NextTwice]_vars

----------------------------------------------------------------------------
(* Vocabulary of the properties. *)

Started == pc \notin {"parse"}
Selected == pc \notin {"parse", "count", "destination"}
Prepared == pc \in {"gather", "copy", "done", "aborted"}
Gathered == pc \in {"copy", "done", "aborted"}

Sources == arguments.sources
SourceDirs == {Resolve(Sources[k]) : k \in 1..Len(Sources)}

\* the files (not directories) of a category among the sources at the start
FilesOfType(types) ==
    {x \in fs0.files : x.dir \in SourceDirs /\ lower(x.name.ext) \in types}

Positions(kind) ==
    {p \in 1..Len(items) :
        IF kind = "image" THEN IsImage(items[p])
        ELSE ~IsImage(items[p]) /\ IsVideo(items[p])}
Media == Positions("image") \cup Positions("video")
Unknown == (1..Len(items)) \ Media

Copies(kind) == {k \in 1..Len(copied) : copied[k].kind = kind}

\* the file a copy wrote is at its target, with the content of its item
InPlace(c) ==
    \E x \in fs.files : /\ x.dir = Resolve(Parent(c.target))
                        /\ x.name = Last(c.target)
                        /\ x.data = c.data

DestinationDirs == {Resolve(destination), Resolve(video_destination)}
DestinationFiles(files) == {x \in files : x.dir \in DestinationDirs}

ClipsDirectory == Append(destination, Name(DEFAULT_VIDEO_DIRECTORY, ""))
PrimaryDirectory ==
    Append(Path(argv.destination), AlbumName)

----------------------------------------------------------------------------
(* C1: both indexes start at 1; an index changes only by +1, in the step   *)
(* that copies an item of its own category, and every such copy bumps its  *)
(* index; an item of unknown type changes neither; hence the k-th copied   *)
(* image (video) of the run carries index k.                               *)

C1_IndexSteps ==
    [][ /\ (pc = "gather" /\ pc' = "copy")
            => image_index' = 1 /\ video_index' = 1
        /\ pc = "copy" =>
            /\ image_index' # image_index =>
                 /\ pos \in Positions("image")
                 /\ image_index' = image_index + 1
                 /\ video_index' = video_index
                 /\ Len(copied') = Len(copied) + 1
            /\ video_index' # video_index =>
                 /\ pos \in Positions("video")
                 /\ video_index' = video_index + 1
                 /\ image_index' = image_index
                 /\ Len(copied') = Len(copied) + 1
            /\ pos \in Unknown =>
                 image_index' = image_index /\ video_index' = video_index
            /\ Len(copied') > Len(copied) =>
                 LET c == copied'[Len(copied')]
                 IN  /\ c.item = items[pos][1]
                     /\ \E x \in fs'.files :
                           /\ x.dir = Resolve(Parent(c.target))
                           /\ x.name = Last(c.target)
                           /\ x.data = c.data
                     /\ c.index = Cardinality({k \in 1..Len(copied') :
                                                 copied'[k].kind = c.kind})
                     /\ IF c.kind = "image"
                        THEN image_index' = c.index + 1
                        ELSE video_index' = c.index + 1
      ]_vars

C1_Witness ==
    /\ pc = "done"
    /\ image_index = 2 /\ video_index = 2
    /\ Unknown # {}

----------------------------------------------------------------------------
(* C2: videos go to the primary destination exactly when the sources hold  *)
(* at least one video file and no image file; otherwise to Clips beneath   *)
(* it.                                                                     *)

C2_VideoDirectory ==
    Selected =>
        /\ destination = PrimaryDirectory
        /\ video_destination = destination
             <=> (FilesOfType(KNOWN_VIDEO_TYPES) # {}
                  /\ FilesOfType(KNOWN_IMAGE_TYPES) = {})
        /\ video_destination # destination
             => video_destination = ClipsDirectory

----------------------------------------------------------------------------
(* C3: the resolved source list holds every supplied source and every      *)
(* directory below one, is sorted by path, and holds no directory twice.   *)

IsPrefix(p, q) == Len(p) <= Len(q) /\ SubSeq(q, 1, Len(p)) = p

SourcesComplete ==
    /\ \A k \in 1..Len(argv.sources) : Path(argv.sources[k]) \in Range(Sources)
    /\ \A k \in 1..Len(argv.sources) : \A d \in fs0.dirs :
          IsPrefix(Resolve(argv.sources[k]), d) => d \in SourceDirs
SourcesSorted ==
    \A i, j \in 1..Len(Sources) : i < j => ~PathLess(Sources[j], Sources[i])

\* C3 as stated: no two entries of the list name the same directory
C3_NoDirectoryTwice ==
    Started =>
        /\ SourcesComplete
        /\ SourcesSorted
        /\ \A i, j \in 1..Len(Sources) :
              i # j => Resolve(Sources[i]) # Resolve(Sources[j])

\* C3 as amended: the list holds every supplied source and every directory
\* below one, is sorted by path, and holds no path twice; one directory
\* spelled in two ways (a and a/b/..) is listed under both spellings
C3_NoPathTwice ==
    Started =>
        /\ SourcesComplete
        /\ SourcesSorted
        /\ \A i, j \in 1..Len(Sources) : i # j => Sources[i] # Sources[j]

C3_Witness ==
    /\ pc = "count"
    /\ argv.sources = <<DirA, <<Name("a", ""), Name("b", ""), DotDot>> >>
    /\ DirPics \in fs0.dirs
    /\ Len(Sources) = 6

----------------------------------------------------------------------------
(* C4: the item list holds the files of the sources source by source in    *)
(* the resolved order, each source's files by ascending timestamp (not one *)
(* global chronological order), and the copies are made and indexed in     *)
(* the order of the list.                                                  *)

SourceIndex(p) == CHOOSE k \in 1..Len(Sources) : Sources[k] = Parent(items[p][1])

C4_ItemOrder ==
    Gathered =>
        /\ {items[p][1] : p \in 1..Len(items)} =
             UNION {{Append(Sources[k], x.name) :
                        x \in {x \in fs0.files : x.dir = Resolve(Sources[k])}} :
                    k \in 1..Len(Sources)}
        /\ \A p, q \in 1..Len(items) : p < q =>
              /\ items[p][1] # items[q][1]
              /\ SourceIndex(p) <= SourceIndex(q)
              /\ SourceIndex(p) = SourceIndex(q) => items[p][2] <= items[q][2]
        /\ {copied[k].pos : k \in 1..Len(copied)} = {p \in Media : p < pos}
        /\ \A k \in 1..Len(copied) :
              /\ k > 1 => copied[k - 1].pos < copied[k].pos
              /\ copied[k].item = items[copied[k].pos][1]
              /\ copied[k].index =
                   Cardinality({p \in Positions(copied[k].kind) :
                                   p <= copied[k].pos})

C4_Witness ==
    /\ pc = "done"
    /\ Sources = <<DirA, DirB>>
    /\ items = << <<Append(DirA, Name("movie", ".mp4")), 2>>,
                  <<Append(DirA, Name("photo", ".jpg")), 3>>,
                  <<Append(DirB, Name("pic", ".png")), 1>> >>
    /\ Len(copied) = 3
    /\ copied[1].kind = "video" /\ copied[1].index = 1
    /\ copied[2].kind = "image" /\ copied[2].index = 1
    /\ copied[3].kind = "image" /\ copied[3].index = 2

----------------------------------------------------------------------------
(* C5: a destination directory is created only if the sources hold a file  *)
(* of the category stored in it; with no image and no video file among the *)
(* sources the run creates no directory.                                   *)

C5_LazyDirectories ==
    Prepared =>
        /\ Resolve(destination) \in created =>
              \/ FilesOfType(KNOWN_IMAGE_TYPES) # {}
              \/ /\ video_destination = destination
                 /\ FilesOfType(KNOWN_VIDEO_TYPES) # {}
        /\ Resolve(ClipsDirectory) \in created =>
              FilesOfType(KNOWN_VIDEO_TYPES) # {}
        /\ FilesOfType(KNOWN_IMAGE_TYPES \cup KNOWN_VIDEO_TYPES) = {} =>
              created = {}

----------------------------------------------------------------------------
(* C6: when the copy of item n fails the run has stopped at n: the images  *)
(* and videos before n are copied and in place, nothing at or after n is   *)
(* copied, and the indexes count the copies made.                          *)

C6_StopsAtFault ==
    fault # 0 =>
        /\ pc = "aborted"
        /\ pos = fault
        /\ {copied[k].pos : k \in 1..Len(copied)} = {p \in Media : p < fault}
        /\ \A k \in 1..Len(copied) : InPlace(copied[k])
        /\ image_index = 1 + Cardinality(Copies("image"))
        /\ video_index = 1 + Cardinality(Copies("video"))

C6_Witness ==
    /\ fault = 3
    /\ Len(copied) = 2
    /\ fs # fs0

----------------------------------------------------------------------------
(* C7: a second run with the same command line over the same sources      *)
(* starts both indexes at 1 again and leaves the destination with contents *)
(* other than those the first run left.                                    *)

DestinationOutside == DestinationDirs \cap SourceDirs = {}

\* C7 as stated: after a second run that gathered the same items and copied
\* some, the destination files differ from those the first run left
C7_SecondRunDiffers ==
    (run = 2 /\ pc = "done" /\ items = first.items /\ copied # <<>>)
        => DestinationFiles(fs.files) # DestinationFiles(first.files)

\* C7 as amended: the second run starts both indexes at 1 again and copies
\* every image and video again; when no destination directory is a source
\* and the items are gathered in the same order, every copy replaces the
\* file the first run wrote under the same name, and the files are those
\* the first run left
C7_SecondRunRepeats ==
    run = 2 =>
        /\ (pc = "copy" /\ copied = <<>> /\ fault = 0)
              => image_index = 1 /\ video_index = 1
        /\ pc = "done" =>
              /\ {copied[k].pos : k \in 1..Len(copied)} = Media
              /\ (items = first.items /\ DestinationOutside)
                    => fs.files = first.files

C7_Witness ==
    /\ run = 2 /\ pc = "done"
    /\ items = first.items /\ DestinationOutside
    /\ Cardinality(Copies("image")) = 2
    /\ Cardinality(Copies("video")) = 1

----------------------------------------------------------------------------
(* C8: every file that was a direct child of a source when the run started *)
(* is still there with the same content; the run only adds directories and *)
(* writes files in the destination directories.                            *)

C8_SourcesUntouched ==
    Started =>
        /\ \A x \in fs0.files : x.dir \in SourceDirs => x \in fs.files
        /\ fs0.dirs \subseteq fs.dirs
        /\ Selected =>
              \A x \in fs.files \ fs0.files : x.dir \in DestinationDirs

----------------------------------------------------------------------------
(* C9: no more items of a category are handled in the copy phase than the  *)
(* count phase counted, so every index fits the padding width and all      *)
(* names of a category have the same length of index.                      *)

C9_PaddingSuffices ==
    Gathered =>
        /\ Cardinality(Positions("image")) <= image_count
        /\ Cardinality(Positions("video")) <= video_count
        /\ \A k \in 1..Len(copied) :
              LET places == IF copied[k].kind = "image"
                            THEN image_index_places ELSE video_index_places
                  total == IF copied[k].kind = "image"
                           THEN image_count ELSE video_count
              IN  /\ places = Len(Str(total))
                  /\ Len(Str(copied[k].index)) <= places
                  /\ Len(Last(copied[k].target).stem) =
                       Len(arguments.initials) + 1 + places

C9_Witness ==
    /\ pc = "done"
    /\ image_index_places = 2
    /\ \E k \in 1..Len(copied) :
          copied[k].kind = "image" /\ copied[k].index = 10
    /\ \E k \in 1..Len(copied) :
          /\ copied[k].kind = "image" /\ copied[k].index = 1
          /\ Len(Last(copied[k].target).stem) = 4

----------------------------------------------------------------------------
(* C10: the copies of one run are written to pairwise distinct files.      *)

C10_DistinctTargets ==
    \A i, j \in 1..Len(copied) : i # j =>
        <<Resolve(Parent(copied[i].target)), Last(copied[i].target)>>
            # <<Resolve(Parent(copied[j].target)), Last(copied[j].target)>>

C10_Witness ==
    /\ pc = "done"
    /\ Cardinality(Copies("image")) >= 2
    /\ Cardinality(Copies("video")) >= 1
    /\ \E i, j \in 1..Len(copied) :
          /\ copied[i].kind = "image" /\ copied[j].kind = "video"
          /\ copied[i].index = copied[j].index
====
